---- MODULE Spec2Model ----
(***************************************************************************)
(* Model of mongodb-schema-parser's SchemaParser (src/src/lib.rs).         *)
(*                                                                         *)
(* The parser owns a document counter and a flat vector of Field entries.  *)
(* write() decodes one JSON text, converts it to Bson, bumps the counter   *)
(* and walks the document with generate_field(); to_json() serialises the  *)
(* parser.  Field and FieldType live in field.rs / field_type.rs, which    *)
(* are not part of the sources at hand: their operators below follow the   *)
(* specification's FieldStat / KindStat / ValueSample description.         *)
(***************************************************************************)
EXTENDS Integers, Sequences, FiniteSets, TLC

VARIABLES
  count,     \* SchemaParser.count
  fields,    \* SchemaParser.fields
  op,        \* the last call: "new", "write" or "to_json"
  result,    \* how the last call ended: "Ok", "Err" or "Panic"
  out,       \* the text the last to_json returned, <<>> otherwise
  ingested   \* the number of write calls that returned Ok

vars == <<count, fields, op, result, out, ingested>>

\* Number of documents a behaviour may ingest.
MaxDocs == 2

(***************************************************************************)
(* Input values.  A JSON value is a record [t, v, sub]: t is the JSON      *)
(* type, v the scalar's text ("" for containers) and sub the entries of an *)
(* object, in key order, each entry a record [key, val].                   *)
(***************************************************************************)
Keys == {"a", "n"}

JLeaf(t, v) == [t |-> t, v |-> v, sub |-> <<>>]

JObj(es) == [t |-> "object", v |-> "", sub |-> es]

Entry(k, x) == [key |-> k, val |-> x]

JsonLeaves == {JLeaf("string", "x"), JLeaf("number", "1")}

\* Key-ordered mappings over a set of values: no key occurs twice.
ObjectsOver(vals) ==
  {JObj(<<>>)}
    \cup {JObj(<<Entry(k, x)>>) : k \in Keys, x \in vals}
    \cup {JObj(<<Entry(k1, x1), Entry(k2, x2)>>) :
            <<k1, k2>> \in {p \in Keys \X Keys : p[1] # p[2]},
            <<x1, x2>> \in vals \X vals}

InnerObjects == ObjectsOver(JsonLeaves)

\* The JSON texts whose root is an object.
JsonDocs == ObjectsOver(JsonLeaves \cup InnerObjects)

\* The JSON texts whose root is no object.
JsonNonDocs == JsonLeaves \cup {JLeaf("null", "null"), JLeaf("array", "[]")}

\* A text that is no JSON.
JsonInvalid == {JLeaf("invalid", "{")}

\* serde_json::from_str(json): Err for a text that is no JSON.
from_str(json) ==
  IF json.t = "invalid" THEN [ok |-> FALSE, val |-> json] ELSE [ok |-> TRUE, val |-> json]

(***************************************************************************)
(* Bson::from(serde_json::Value): the type of each value is mapped to its  *)
(* Bson variant, objects entry by entry.                                   *)
(***************************************************************************)
BsonKind(t) ==
  CASE t = "null"   -> "Null"
    [] t = "bool"   -> "Boolean"
    [] t = "number" -> "I64"
    [] t = "string" -> "String"
    [] t = "array"  -> "Array"
    [] t = "object" -> "Document"

RECURSIVE Bson_from(_)
Bson_from(j) ==
  [t   |-> BsonKind(j.t),
   v   |-> j.v,
   sub |-> [i \in 1..Len(j.sub) |->
              Entry(j.sub[i].key, Bson_from(j.sub[i].val))]]

\* bson.as_document(): Some(doc) for a document, None otherwise.
as_document(b) ==
  IF b.t = "Document" THEN [some |-> TRUE, doc |-> b.sub] ELSE [some |-> FALSE, doc |-> <<>>]

(***************************************************************************)
(* Field and FieldType (field.rs, field_type.rs).                          *)
(***************************************************************************)
\* Capacity of a value sample.
SampleMax == 5

\* path: &Option<String>
NonePath == [some |-> FALSE, s |-> ""]

SomePath(p) == [some |-> TRUE, s |-> p]

\* Field::get_path(key, path): dot-joined path from the document root.
get_path(key, path) == IF path.some THEN path.s \o "." \o key ELSE key

\* Field::new(&key, &current_path, count)
Field_new(key, path, c) == [name |-> key, path |-> path, count |-> c, types |-> <<>>]

\* FieldType::new(&current_path)
FieldType_new(path) == [path |-> path, kind |-> "", count |-> 0, values |-> <<>>]

\* What a sample retains of a value: its kind and its scalar text (a
\* container is retained as a whole; its text is empty).
Raw(value) == [t |-> value.t, v |-> value.v]

\* A value sample keeps the first SampleMax distinct values.
SampleInsert(values, value) ==
  IF (\E i \in 1..Len(values) : values[i] = value) \/ Len(values) >= SampleMax
    THEN values
    ELSE Append(values, value)

\* field_type.update_count()
update_count(ft) == [ft EXCEPT !.count = @ + 1]

\* field_type.update_value(&value)
update_value(ft, value) == [ft EXCEPT !.values = SampleInsert(@, Raw(value))]

\* FieldType::add_to_type(&value): the first sighting of a value of this kind.
add_to_type(ft, value) ==
  update_value(update_count([ft EXCEPT !.kind = value.t]), value)

\* field.add_to_types(field_type)
add_to_types(field, ft) == [field EXCEPT !.types = Append(@, ft)]

(***************************************************************************)
(* SchemaParser's private helpers.                                         *)
(***************************************************************************)
\* self.fields.push(field) placed at the front instead.
add_to_fields_front(fs, field) == <<field>> \o fs

\* self.fields.push(field)
add_to_fields(fs, field) == Append(fs, field)

\* Is there a field whose name is key?
does_field_name_exist(fs, key) == \E i \in 1..Len(fs) : fs[i].name = key

\* Every type of every field named key gets its count and value updated.
update_field(fs, key, value) ==
  [i \in 1..Len(fs) |->
     IF fs[i].name = key
       THEN [fs[i] EXCEPT !.types =
               [j \in 1..Len(fs[i].types) |->
                  update_value(update_count(fs[i].types[j]), value)]]
       ELSE fs[i]]

\* The walk of one document: entries in order, a subdocument before the
\* field that holds it is pushed.
RECURSIVE generate_field(_, _, _)
generate_field(fs, doc, path) ==
  IF doc = <<>>
    THEN fs
    ELSE LET key   == Head(doc).key
             value == Head(doc).val
             next  ==
               IF does_field_name_exist(fs, key)
                 THEN update_field(fs, key, value)
                 ELSE LET current_path == get_path(key, path)
                          field        == Field_new(key, current_path, 0)
                      IN  IF value.t = "Document"
                            THEN add_to_fields(
                                   generate_field(fs, value.sub, SomePath(current_path)),
                                   field)
                            ELSE add_to_fields(
                                   fs,
                                   add_to_types(
                                     field,
                                     add_to_type(FieldType_new(current_path), value)))
         IN  generate_field(next, Tail(doc), path)

(***************************************************************************)
(* The public operations, as functions of the parser and the argument.     *)
(***************************************************************************)
\* What a call leaves behind: the parser's members and how the call ended.
Outcome(c, fs, r) == [count |-> c, fields |-> fs, result |-> r]

\* write() with the counter bumped before the root is looked at.
write_count_first(c, fs, json) ==
  LET parsed == from_str(json)
      bson   == Bson_from(parsed.val)
      doc    == as_document(bson)
  IN  IF ~parsed.ok
        THEN Outcome(c + 1, fs, "Err")
        ELSE IF ~doc.some
          THEN Outcome(c + 1, fs, "Panic")
          ELSE Outcome(c + 1, generate_field(fs, doc.doc, NonePath), "Ok")

\* write() with the counter bumped twice.
write_count_twice(c, fs, json) ==
  LET parsed == from_str(json)
      bson   == Bson_from(parsed.val)
      doc    == as_document(bson)
  IN  IF ~parsed.ok
        THEN Outcome(c, fs, "Err")
        ELSE IF ~doc.some
          THEN Outcome(c, fs, "Panic")
          ELSE Outcome(c + 2, generate_field(fs, doc.doc, NonePath), "Ok")

\* write(json): from_str()? returns Err, as_document().unwrap() panics on a
\* root that is no document; only then the counter and the fields change.
write(c, fs, json) ==
  LET parsed == from_str(json)
      bson   == Bson_from(parsed.val)
      doc    == as_document(bson)
  IN  IF ~parsed.ok
        THEN Outcome(c, fs, "Err")
        ELSE IF ~doc.some
          THEN Outcome(c, fs, "Panic")
          ELSE Outcome(c + 1, generate_field(fs, doc.doc, NonePath), "Ok")

\* serde_json::to_string(&self): the struct's members, in declaration order.
Serialize(c, fs) == <<[count |-> c, fields |-> fs]>>

\* to_json() refusing a parser that has seen no document.
to_json_nonempty(c, fs) ==
  IF c = 0
    THEN [result |-> "Err", out |-> <<>>]
    ELSE [result |-> "Ok", out |-> Serialize(c, fs)]

\* to_json(): Ok(serde_json::to_string(&self)?)
to_json(c, fs) == [result |-> "Ok", out |-> Serialize(c, fs)]

(***************************************************************************)
(* The state machine: one action per call.                                 *)
(***************************************************************************)
\* SchemaParser::new()
Init ==
  /\ count = 0
  /\ fields = <<>>
  /\ op = "new"
  /\ result = "Ok"
  /\ out = <<>>
  /\ ingested = 0

\* One call of write(json).
Write(json) ==
  \E w \in {write(count, fields, json)} :
      /\ count' = w.count
      /\ fields' = w.fields
      /\ op' = "write"
      /\ result' = w.result
      /\ out' = <<>>
      /\ ingested' = IF w.result = "Ok" THEN ingested + 1 ELSE ingested

\* write() of a text that is no JSON.
WriteInvalid == \E json \in JsonInvalid : ~from_str(json).ok /\ Write(json)

\* write() of a JSON text whose root is no object.
WriteNonDoc == \E json \in JsonNonDocs : from_str(json).ok /\ Write(json)

\* write() of a JSON text whose root is an object.
WriteDoc == \E json \in JsonDocs : ingested < MaxDocs /\ Write(json)

\* One call of to_json().
ToJson ==
  \E t \in {to_json(count, fields)} :
      /\ op' = "to_json"
      /\ result' = t.result
      /\ out' = t.out
      /\ UNCHANGED <<count, fields, ingested>>

Next == WriteInvalid \/ WriteNonDoc \/ WriteDoc \/ ToJson

Spec == Init /\ [][Next]_vars

(***************************************************************************)
(* Vocabulary of the properties.                                           *)
(***************************************************************************)
\* The document a JSON text decodes to.
DocOf(json) == as_document(Bson_from(from_str(json).val)).doc

\* The step is a successful write(json).
Ingest(json) == ingested' = ingested + 1 /\ Write(json)

\* Every (path, kind) met by the depth-first walk of a document.
RECURSIVE Sightings(_, _)
Sightings(doc, path) ==
  UNION {
    LET p == get_path(doc[i].key, path)
    IN  {[path |-> p, kind |-> doc[i].val.t]}
          \cup (IF doc[i].val.t = "Document"
                  THEN Sightings(doc[i].val.sub, SomePath(p))
                  ELSE {})
    : i \in 1..Len(doc)}

\* The paths met by the walk, in the order in which it first meets them.
RECURSIVE WalkOrder(_, _)
WalkOrder(doc, path) ==
  IF doc = <<>>
    THEN <<>>
    ELSE LET p == get_path(Head(doc).key, path)
         IN  <<p>>
               \o (IF Head(doc).val.t = "Document"
                     THEN WalkOrder(Head(doc).val.sub, SomePath(p))
                     ELSE <<>>)
               \o WalkOrder(Tail(doc), path)

BsonKinds == {"Null", "Boolean", "I64", "String", "Array", "Document"}

PathsOf(fs) == [i \in 1..Len(fs) |-> fs[i].path]

HasField(fs, p) == \E i \in 1..Len(fs) : fs[i].path = p

\* The count of the field at path p, 0 when there is none.
FieldCount(fs, p) ==
  IF HasField(fs, p) THEN fs[CHOOSE i \in 1..Len(fs) : fs[i].path = p].count ELSE 0

\* The kinds recorded for path p.
KindsAt(fs, p) ==
  {fs[i].types[j].kind : <<i, j>> \in
     {x \in (1..Len(fs)) \X (1..2) : fs[x[1]].path = p /\ x[2] <= Len(fs[x[1]].types)}}

\* The count recorded for kind k at path p, 0 when there is none.
KindCount(fs, p, k) ==
  IF \E i \in 1..Len(fs) : fs[i].path = p /\ \E j \in 1..Len(fs[i].types) : fs[i].types[j].kind = k
    THEN LET i == CHOOSE n \in 1..Len(fs) :
                    fs[n].path = p /\ \E j \in 1..Len(fs[n].types) : fs[n].types[j].kind = k
             j == CHOOSE m \in 1..Len(fs[i].types) : fs[i].types[m].kind = k
         IN  fs[i].types[j].count
    ELSE 0

\* Is child the path of an entry of the document at parent?
IsChildPath(child, parent) == \E k \in Keys : child = parent \o "." \o k

(***************************************************************************)
(* C1.  After any sequence of write calls on a fresh parser, count is the  *)
(* number of documents ingested: a successful write adds exactly 1 to it   *)
(* and no other call changes it.                                           *)
(***************************************************************************)
C1_DocumentCount ==
  /\ [](count = ingested)
  /\ [][count' = IF op' = "write" /\ result' = "Ok" THEN count + 1 ELSE count]_vars

C1_Witness == op = "write" /\ result = "Ok" /\ count = 2 /\ ingested = 2

(***************************************************************************)
(* C8.  A write that does not succeed (the text does not parse, or its     *)
(* root is no document) leaves count and every field as they were.         *)
(***************************************************************************)
C8_FailedIngestKeepsState ==
  [][(op' = "write" /\ result' # "Ok") => (count' = count /\ fields' = fields)]_vars

C8_Witness == op = "write" /\ result = "Panic" /\ count > 0 /\ fields # <<>>

(***************************************************************************)
(* C7.  As claimed: to_json on a parser with count = 0 fails.              *)
(***************************************************************************)
C7_EmptySnapshotFails == (op = "to_json" /\ count = 0) => result = "Err"

(***************************************************************************)
(* C7, amended.  to_json on a parser with count = 0 succeeds and returns   *)
(* the serialised empty parser: count 0 and no fields.                     *)
(***************************************************************************)
C7_EmptySnapshotIsReturned ==
  (op = "to_json" /\ count = 0) => (result = "Ok" /\ out = Serialize(0, <<>>))

C7_Witness == op = "to_json" /\ count = 0 /\ result = "Ok" /\ out # <<>>

(***************************************************************************)
(* C9.  write of a text whose root is no object (an array, a string, a     *)
(* number, null) ends with a typed error result, not with a panic and not  *)
(* with success.                                                           *)
(***************************************************************************)
C9_NonDocumentIsTypedError ==
  [][\A json \in JsonNonDocs : Write(json) => result' = "Err"]_vars

(***************************************************************************)
(* C2.  Field lookup is keyed by the full path: a successful write gives   *)
(* every path of the document its own field, and creates or changes no     *)
(* field of another path, also not one that ends in the same key.          *)
(***************************************************************************)
C2_PathKeyedLookup ==
  [][\A json \in JsonDocs :
       Ingest(json) =>
         LET paths == {s.path : s \in Sightings(DocOf(json), NonePath)}
         IN  /\ \A p \in paths : HasField(fields', p)
             /\ \A i \in 1..Len(fields') :
                  (i > Len(fields) \/ fields'[i] # fields[i]) => fields'[i].path \in paths]_vars

(***************************************************************************)
(* C3.  A value that is no document, ingested at a path, adds 1 to the     *)
(* count of exactly the kind of that value at that path (creating the      *)
(* kind's entry when it is new) and leaves the other kinds of the path     *)
(* alone: {"n":"x"} then {"n":1} gives String 1 and I64 1.                 *)
(***************************************************************************)
C3_KindOfValueCounted ==
  [][\A json \in JsonDocs :
       Ingest(json) =>
         \A s \in Sightings(DocOf(json), NonePath) :
           s.kind # "Document" =>
             \A k \in BsonKinds :
               KindCount(fields', s.path, k) =
                 KindCount(fields, s.path, k) + (IF k = s.kind THEN 1 ELSE 0)]_vars

(***************************************************************************)
(* C4.  The count of a field is the number of ingested documents that hold *)
(* its path: a successful write adds 1 to the count of each path of the    *)
(* document and to no other, and 1 <= count <= documentCount always.       *)
(***************************************************************************)
C4_FieldCountPerDocument ==
  /\ [](\A i \in 1..Len(fields) : 1 <= fields[i].count /\ fields[i].count <= count)
  /\ [][\A json \in JsonDocs :
          Ingest(json) =>
            LET paths == {s.path : s \in Sightings(DocOf(json), NonePath)}
            IN  /\ \A p \in paths : FieldCount(fields', p) = FieldCount(fields, p) + 1
                /\ \A i \in 1..Len(fields) :
                     fields[i].path \notin paths =>
                       FieldCount(fields', fields[i].path) = fields[i].count]_vars

(***************************************************************************)
(* C5.  An entry whose value is a document, at a new or at a known path,   *)
(* has its entries merged under its path, and no kind is recorded or       *)
(* incremented for the document itself.                                    *)
(***************************************************************************)
C5_DocumentsRecurse ==
  [][\A json \in JsonDocs :
       Ingest(json) =>
         \A s \in Sightings(DocOf(json), NonePath) :
           s.kind = "Document" =>
             /\ \A k \in BsonKinds :
                  KindCount(fields', s.path, k) = KindCount(fields, s.path, k)
             /\ \A c \in Sightings(DocOf(json), NonePath) :
                  IsChildPath(c.path, s.path) =>
                    /\ HasField(fields', c.path)
                    /\ c.kind # "Document" => c.kind \in KindsAt(fields', c.path)]_vars

(***************************************************************************)
(* C6.  Writing a document a second time right after writing it to a fresh *)
(* parser doubles the count of every field and of every kind, and leaves   *)
(* the paths and the kinds of each path as they were.                      *)
(***************************************************************************)
C6_SecondIngestDoubles ==
  [][\A json \in JsonDocs :
       (/\ count = 1
        /\ fields = generate_field(<<>>, DocOf(json), NonePath)
        /\ Ingest(json)) =>
         /\ PathsOf(fields') = PathsOf(fields)
         /\ \A i \in 1..Len(fields) :
              /\ fields'[i].count = 2 * fields[i].count
              /\ Len(fields'[i].types) = Len(fields[i].types)
              /\ \A j \in 1..Len(fields[i].types) :
                   /\ fields'[i].types[j].kind = fields[i].types[j].kind
                   /\ fields'[i].types[j].count = 2 * fields[i].types[j].count]_vars

(***************************************************************************)
(* C10.  As claimed: the fields are in first-seen order.  A successful     *)
(* write appends the paths of the document that were not known, in the     *)
(* order in which the depth-first walk first meets them, so that a parent  *)
(* precedes its child; the text to_json returns has the same order.        *)
(***************************************************************************)
C10_FirstSeenOrder ==
  /\ [](out # <<>> => PathsOf(out[1].fields) = PathsOf(fields))
  /\ [][\A json \in JsonDocs :
          Ingest(json) =>
            PathsOf(fields') =
              PathsOf(fields)
                \o SelectSeq(WalkOrder(DocOf(json), NonePath),
                             LAMBDA p : ~HasField(fields, p))]_vars

(***************************************************************************)
(* C10, amended.  The fields are in push order.  The vector only grows at  *)
(* its end and its entries never move; a new field is pushed once the walk *)
(* of its value has finished, so a child such as "a.n" precedes its parent *)
(* "a"; the text to_json returns has the same order.                       *)
(***************************************************************************)
C10_PushOrder ==
  /\ [](/\ \A i, j \in 1..Len(fields) :
             IsChildPath(fields[j].path, fields[i].path) => j < i
        /\ out # <<>> => PathsOf(out[1].fields) = PathsOf(fields))
  /\ [][/\ Len(fields') >= Len(fields)
        /\ \A i \in 1..Len(fields) : fields'[i].path = fields[i].path]_vars

C10_Witness ==
  \E i, j \in 1..Len(fields) :
    /\ i < j
    /\ fields[i].path = "a.n"
    /\ fields[j].path = "a"
    /\ op = "to_json"
    /\ out # <<>>

====
